---- MODULE Spec2Model ----
(***************************************************************************)
(* Model of the hydraulic valve condition service: the offline training    *)
(* script's feature engineering (backend/train_model.py), the service's    *)
(* module initialisation (model load, normal operating ranges) and the     *)
(* /predict handler with its explanation generator (backend/app.py).       *)
(*                                                                         *)
(* Numbers.  A float is <<x>> or NaN == <<>>.  Feature values, sensor      *)
(* statistics and range bounds are kept in units of 1/Scale (Scale = 20),  *)
(* which makes the 5th/95th percentile interpolation exact on the integer  *)
(* readings used here.  Class probabilities are kept in units of           *)
(* 1/ProbaUnit.  A number rendered with ":.2f" is kept in hundredths.      *)
(***************************************************************************)
EXTENDS Integers, Sequences, FiniteSets, TLC

VARIABLES
    data_files,        \* ./data/<sensor>.txt : [sensor -> [exists, rows]]
    profile_file,      \* ./data/profile.txt  : [exists, rows] (valve_condition column)
    model_file,        \* hydraulic_model.joblib : [state, classes_, n_features_in_]
    pc,                \* where the deployment is: "offline", "ranges", "serving", "crashed"
    train,             \* what the last run of train_model.py did: [status, features_df]
    printed,           \* messages the service printed while initialising
    model,             \* app.py global
    explainer,         \* app.py global
    features_df,       \* app.py global (line 41): the combined reference feature table
    normal_ranges,     \* app.py global
    EXPECTED_FEATURES, \* app.py global
    PREDICTION_MAP,    \* app.py global
    threads,           \* the /predict request of each thread: [id -> locals of predict()],
                       \* its pc "idle", "update" (before line 113), "return" (before
                       \* line 118), "done", or "explain" (before line 100)
    response           \* what jsonify returned for the last finished request of each thread

vars == <<data_files, profile_file, model_file, pc, train, printed, model, explainer,
          features_df, normal_ranges, EXPECTED_FEATURES, PREDICTION_MAP, threads, response>>

-----------------------------------------------------------------------------
(* Bounds of the model *)

MaxCycles == 3        \* operating cycles (rows) in the reference data
MaxFeatures == 4      \* longest feature vector tried on the ranking/explanation step alone

-----------------------------------------------------------------------------
(* Floats *)

NaN == <<>>
F(x) == <<x>>
\* IEEE comparisons: anything compared with NaN is false
LtOrEqual(a, b) == a # NaN /\ b # NaN /\ a[1] <= b[1]
Lt(a, b) == a # NaN /\ b # NaN /\ a[1] < b[1]
Gt(a, b) == a # NaN /\ b # NaN /\ a[1] > b[1]

Q_LOW == 5            \* quantile(0.05), in percent
Q_HIGH == 95          \* quantile(0.95), in percent
Scale == 100 \div Q_LOW

AbsInt(x) == IF x < 0 THEN -x ELSE x

\* f"{x:.2f}" of the exact value num/den: correctly rounded, ties to even; "nan" for NaN.
\* The result is in hundredths.
Format2f(a, den) ==
    IF a = NaN THEN NaN
    ELSE LET n == 100 * AbsInt(a[1])
             q == n \div den
             r == n % den
             up == (2 * r > den) \/ (2 * r = den /\ q % 2 = 1)
             m == IF up THEN q + 1 ELSE q
         IN  F(IF a[1] < 0 THEN -m ELSE m)

-----------------------------------------------------------------------------
(* Sequences *)

RECURSIVE SumSeq(_)
SumSeq(s) == IF s = <<>> THEN 0 ELSE Head(s) + SumSeq(Tail(s))

RECURSIVE MinSeq(_)
MinSeq(s) == IF Len(s) = 1 THEN s[1]
             ELSE LET m == MinSeq(Tail(s)) IN IF s[1] < m THEN s[1] ELSE m

RECURSIVE MaxSeq(_)
MaxSeq(s) == IF Len(s) = 1 THEN s[1]
             ELSE LET m == MaxSeq(Tail(s)) IN IF s[1] > m THEN s[1] ELSE m

RECURSIVE Concat(_)
Concat(ss) == IF ss = <<>> THEN <<>> ELSE Head(ss) \o Concat(Tail(ss))

Reverse(s) == [i \in 1..Len(s) |-> s[Len(s) + 1 - i]]

Range(s) == {s[i] : i \in 1..Len(s)}

\* largest r with r*r <= x
ISqrt(x) == CHOOSE r \in 0..x : r * r <= x /\ (r + 1) * (r + 1) > x

-----------------------------------------------------------------------------
(* Feature Extractor: app.py 29-41, train_model.py 27-52 *)

sensors_to_process == <<"PS1", "PS2", "PS3", "TS1", "TS2", "VS1">>
Stats == <<"mean", "std", "min", "max">>

\* The column f'{sensor}_{stat}', kept as its underscore-separated tokens
Column(sensor, stat) == <<sensor, stat>>

\* sensor_data.mean/std/min/max(axis=1) of one cycle's samples; std is the sample
\* standard deviation (ddof = 1), NaN for a single sample.
RowMean(row) == F((Scale * SumSeq(row)) \div Len(row))
RowStd(row) ==
    IF Len(row) < 2 THEN NaN
    ELSE LET n == Len(row)
             \* n^2 * sum of squared deviations, over integers
             ss == SumSeq([i \in 1..n |-> (n * row[i] - SumSeq(row)) * (n * row[i] - SumSeq(row))])
         IN  F((Scale * ISqrt(ss \div (n - 1))) \div n)
RowMin(row) == F(Scale * MinSeq(row))
RowMax(row) == F(Scale * MaxSeq(row))

RowStat(stat, row) ==
    CASE stat = "mean" -> RowMean(row)
      [] stat = "std"  -> RowStd(row)
      [] stat = "min"  -> RowMin(row)
      [] stat = "max"  -> RowMax(row)

\* The four-column table of one sensor: [columns, rows]; rows[c] maps a column to a float
SensorFeatures(sensor, sensor_data) ==
    [columns |-> [j \in 1..Len(Stats) |-> Column(sensor, Stats[j])],
     rows    |-> [c \in 1..Len(sensor_data) |->
                     [col \in {Column(sensor, Stats[j]) : j \in 1..Len(Stats)} |->
                         RowStat(col[2], sensor_data[c])]]]

\* pd.concat(all_features, axis=1): an outer join on the row index. A table shorter
\* than the longest one is padded with NaN; nothing is raised.
PdConcat(all_features) ==
    LET n    == Len(all_features)
        cols == Concat([k \in 1..n |-> all_features[k].columns])
        len  == MaxSeq([k \in 1..n |-> Len(all_features[k].rows)])
        owner(col) == CHOOSE k \in 1..n : col \in Range(all_features[k].columns)
    IN  [columns |-> cols,
         rows    |-> [c \in 1..len |->
                         [col \in Range(cols) |->
                             IF c <= Len(all_features[owner(col)].rows)
                             THEN all_features[owner(col)].rows[c][col]
                             ELSE NaN]]]

NoTable == [columns |-> <<>>, rows |-> <<>>]

-----------------------------------------------------------------------------
(* Files on disk *)

NOMINAL == 100        \* the valve_condition code of the nominal class

\* The samples of cycle c of the k-th sensor: three readings per cycle
Reading(k, c) == LET b == 3 * c + k
                     d == c % 2
                 IN  <<b, b + d, b + 2 * d>>

SensorIndex(sensor) == CHOOSE k \in 1..Len(sensors_to_process) : sensors_to_process[k] = sensor

SensorTable(sensor, cycles) == [c \in 1..cycles |-> Reading(SensorIndex(sensor), c)]

Present(rows) == [exists |-> TRUE, rows |-> rows]
Missing == [exists |-> FALSE, rows |-> <<>>]

\* Recordings of MaxCycles cycles in which at most one sensor file deviates: it lacks
\* the last cycle ("short") or is not there at all ("missing").
DataSets ==
    {[s \in Range(sensors_to_process) |->
         IF s # dev[1] THEN Present(SensorTable(s, MaxCycles))
         ELSE IF dev[2] = "short" THEN Present(SensorTable(s, MaxCycles - 1))
         ELSE Missing] :
       dev \in {<<"none", "none">>} \cup ({"PS2"} \X {"short", "missing"})}

LongestTable(files) ==
    MaxSeq([k \in 1..Len(sensors_to_process) |-> Len(files[sensors_to_process[k]].rows)])

\* profile.txt: one valve_condition label per cycle of the longest recording (the
\* first k cycles nominal, the rest in condition 90), or one label fewer, or no file
Profiles(files) ==
    {Missing}
    \cup {Present([c \in 1..len |-> IF c <= k THEN NOMINAL ELSE 90]) :
             len \in {LongestTable(files)}, k \in 0..LongestTable(files)}
    \cup {Present([c \in 1..(LongestTable(files) - 1) |-> NOMINAL])}

NoneModel == [loaded |-> FALSE, classes_ |-> <<>>, n_features_in_ |-> 0]
LoadedModel(classes, n) == [loaded |-> TRUE, classes_ |-> classes, n_features_in_ |-> n]

NoModelFile == [state |-> "absent", model |-> NoneModel]
CorruptModelFile == [state |-> "corrupt", model |-> NoneModel]
ModelFile(m) == [state |-> "valid", model |-> m]

-----------------------------------------------------------------------------
(* train_model.py *)

\* sorted distinct labels: the classifier's classes_
SortedCodes(codes) == SortSeq(CHOOSE s \in [1..Cardinality(codes) -> codes] : Range(s) = codes,
                              LAMBDA a, b : a < b)

\* Lines 14-54: load the labels, extract the features of every sensor file that
\* exists (a missing file is skipped with a warning), combine them column-wise.
TrainFeatureEngineering(profile, files) ==
    IF ~profile.exists
    THEN [status |-> "exit: profile.txt not found", features_df |-> NoTable]
    ELSE LET present == SelectSeq(sensors_to_process, LAMBDA s : files[s].exists)
             all_features == [k \in 1..Len(present) |->
                                 SensorFeatures(present[k], files[present[k]].rows)]
         IN  IF all_features = <<>>
             THEN [status |-> "exit: no sensor data files found", features_df |-> NoTable]
             ELSE [status |-> "features", features_df |-> PdConcat(all_features)]

NotRun == [status |-> "not run", features_df |-> NoTable]

\* The whole script. Lines 56-85 (split, fit, evaluate, dump) belong to the external
\* classifier library: they either fail or save a classifier over the labels seen;
\* the split fails when features and labels differ in length.
RunTrainModel ==
    /\ pc = "offline"
    /\ train = NotRun
    /\ LET fe == TrainFeatureEngineering(profile_file, data_files)
           consistent == Len(fe.features_df.rows) = Len(profile_file.rows)
       IN  \E fit_ok \in IF consistent THEN BOOLEAN ELSE {FALSE} :
             /\ train' = IF fe.status = "features"
                         THEN [fe EXCEPT !.status = IF fit_ok THEN "saved" ELSE "fit failed"]
                         ELSE fe
             /\ model_file' = IF fe.status = "features" /\ fit_ok
                              THEN ModelFile(LoadedModel(SortedCodes(Range(profile_file.rows)),
                                                         Len(fe.features_df.columns)))
                              ELSE model_file
    /\ UNCHANGED <<data_files, profile_file, pc, printed, model, explainer, features_df,
                   normal_ranges, EXPECTED_FEATURES, PREDICTION_MAP, threads, response>>

-----------------------------------------------------------------------------
(* app.py, module initialisation *)

\* Lines 13-20: joblib.load; only FileNotFoundError is handled
LoadModel ==
    /\ pc = "offline"
    /\ IF model_file.state = "valid"
       THEN /\ model' = model_file.model
            /\ explainer' = model_file.model
            /\ printed' = printed \cup {"Model and SHAP Explainer loaded successfully."}
            /\ pc' = "ranges"
       ELSE IF model_file.state = "absent"
       THEN /\ model' = NoneModel
            /\ explainer' = NoneModel
            /\ printed' = printed \cup {"Error: Model file 'hydraulic_model.joblib' not found."}
            /\ pc' = "ranges"
       ELSE /\ pc' = "crashed"
            /\ UNCHANGED <<model, explainer, printed>>
    /\ UNCHANGED <<data_files, profile_file, model_file, train, features_df, normal_ranges,
                   EXPECTED_FEATURES, PREDICTION_MAP, threads, response>>

\* Series.quantile(q/100) with linear interpolation over the non-NaN values;
\* NaN when there is none
Quantile(values, q) ==
    LET kept == SelectSeq(values, LAMBDA v : v # NaN)
        s    == SortSeq(kept, LAMBDA a, b : a[1] < b[1])
        h    == (Len(s) - 1) * q
        i    == h \div 100
        r    == h % 100
    IN  IF s = <<>> THEN NaN
        ELSE IF r = 0 THEN s[i + 1]
        ELSE F(s[i + 1][1] + ((s[i + 2][1] - s[i + 1][1]) * r) \div 100)

\* Lines 23-53. Any exception leaves normal_ranges as it is at that point.
CalcNormalRanges(profile, files) ==
    LET failed(fdf) == [ok |-> FALSE, features_df |-> fdf, normal_ranges |-> <<>>,
                        keys |-> <<>>]
    IN  IF ~profile.exists \/ \E s \in Range(sensors_to_process) : ~files[s].exists
        THEN failed(NoTable)                       \* read_csv: FileNotFoundError
        ELSE LET all_features == [k \in 1..Len(sensors_to_process) |->
                                     SensorFeatures(sensors_to_process[k],
                                                    files[sensors_to_process[k]].rows)]
                 fdf == PdConcat(all_features)
             IN  IF Len(profile.rows) < Len(fdf.rows)
                 THEN failed(fdf)                  \* unalignable boolean indexer
                 ELSE LET normal == SelectSeq([c \in 1..Len(fdf.rows) |-> c],
                                              LAMBDA c : profile.rows[c] = NOMINAL)
                          column(col) == [j \in 1..Len(normal) |-> fdf.rows[normal[j]][col]]
                      IN  [ok |-> TRUE, features_df |-> fdf,
                           normal_ranges |-> [col \in Range(fdf.columns) |->
                                                 <<Quantile(column(col), Q_LOW),
                                                   Quantile(column(col), Q_HIGH)>>],
                           keys |-> fdf.columns]

InitNormalRanges ==
    /\ pc = "ranges"
    /\ LET r == CalcNormalRanges(profile_file, data_files)
       IN  /\ features_df' = r.features_df
           /\ normal_ranges' = r.normal_ranges
           /\ EXPECTED_FEATURES' = r.keys
           /\ printed' = printed \cup {IF r.ok THEN "Normal operating ranges calculated."
                                              ELSE "Could not calculate normal ranges"}
    /\ pc' = "serving"
    /\ UNCHANGED <<data_files, profile_file, model_file, train, model, explainer,
                   PREDICTION_MAP, threads, response>>

PREDICTION_MAP_0 ==
    (NOMINAL :> [label |-> "Optimal", severity |-> "low",
                 remedy |-> <<"System is operating optimally.">>])
    @@ (90 :> [label |-> "Small Lag", severity |-> "medium",
               remedy |-> <<"Inspect valve for contamination.", "Check pilot pressure.">>])
    @@ (80 :> [label |-> "Severe Lag", severity |-> "high",
               remedy |-> <<"Schedule valve inspection.", "Check for internal leakage.",
                            "Verify solenoid signal.">>])
    @@ (73 :> [label |-> "Close to Total Failure", severity |-> "critical",
               remedy |-> <<"System shutdown recommended.", "Replace valve immediately.">>])

-----------------------------------------------------------------------------
(* Explanation Generator: app.py 63-78 *)

NoRange == <<>>       \* normal_ranges.get(...) found nothing: None

\* str.title() of the tokens that occur in feature names
Title(token) ==
    CASE token = "PS1" -> "Ps1" [] token = "PS2" -> "Ps2" [] token = "PS3" -> "Ps3"
      [] token = "TS1" -> "Ts1" [] token = "TS2" -> "Ts2" [] token = "VS1" -> "Vs1"
      [] token = "mean" -> "Mean" [] token = "std" -> "Std"
      [] token = "min" -> "Min" [] token = "max" -> "Max"

\* The text is kept as the template chosen, the words put into it and the numbers
\* rendered into it (":.2f", in hundredths), in the order they appear.
generate_text_explanation(feature_name, value, normal_range_tuple) ==
    LET feature_parts == [i \in 1..Len(feature_name) |-> Title(feature_name[i])]
        sensor == feature_parts[1]
        metric == Tail(feature_parts)
        text(template, numbers) ==
            [template |-> template, metric |-> metric, sensor |-> sensor,
             numbers |-> [i \in 1..Len(numbers) |-> Format2f(numbers[i], Scale)]]
    IN  IF normal_range_tuple = NoRange
        THEN text("was a significant factor", <<>>)
        ELSE LET lower_bound == normal_range_tuple[1]
                 upper_bound == normal_range_tuple[2]
             IN  IF Lt(value, lower_bound)
                 THEN text("unusually low", <<value, lower_bound, upper_bound>>)
                 ELSE IF Gt(value, upper_bound)
                 THEN text("unusually high", <<value, lower_bound, upper_bound>>)
                 ELSE text("within its normal range", <<value>>)

-----------------------------------------------------------------------------
(* /predict: app.py 80-121 *)

TOP_K == 3
ProbaUnit == 8

\* dict.get(key) with None for a missing key
RangeGet(ranges, key) == IF key \in DOMAIN ranges THEN ranges[key] ELSE NoRange

\* dict.update
DictUpdate(d, u) == [k \in DOMAIN d \cup DOMAIN u |-> IF k \in DOMAIN u THEN u[k] ELSE d[k]]

EmptyDict == <<>>

ErrorResponse(status, message) == [status |-> status, body |-> [error |-> message]]
NoResponse == [status |-> 0, body |-> EmptyDict]

\* Request bodies: nothing at all, the JSON null, or a JSON object
EmptyBody == [kind |-> "empty", keys |-> {}, features |-> EmptyDict]
NullBody == [kind |-> "null", keys |-> {}, features |-> EmptyDict]
ObjectBody(keys, features) == [kind |-> "object", keys |-> keys, features |-> features]

\* request.get_json(). JSON that parses gives its value. A body that is no JSON
\* document makes Flask raise an HTTP error (BadRequest, UnsupportedMediaType); only
\* an old Flask given a non-JSON content type returns None instead.
GetJson(body, old_flask) ==
    IF body.kind = "empty"
    THEN [raised |-> ~old_flask, is_none |-> TRUE]
    ELSE [raised |-> FALSE, is_none |-> body.kind = "null"]

\* Line 86: not data or 'features' not in data
FeaturesKeyMissing(body, json) == json.is_none \/ body.keys = {} \/ "features" \notin body.keys

\* Line 89: pd.DataFrame([features], columns=EXPECTED_FEATURES): the columns in the
\* canonical order, NaN where the mapping has no such name, other names dropped
DataFrameRow(features, columns) ==
    [i \in 1..Len(columns) |->
        IF columns[i] \in DOMAIN features THEN features[columns[i]] ELSE NaN]

HasNaN(row) == \E i \in 1..Len(row) : row[i] = NaN

\* Lines 91-92: the classifier refuses a vector of another width than it was fitted
\* on, and, depending on the library version, a vector holding NaN
PredictRaises(m, row, clf) == Len(row) # m.n_features_in_ \/ (HasNaN(row) /\ ~clf.nan_ok)

\* Line 94: np.where(model.classes_ == predicted_class)[0][0]; 0 when there is none
\* (IndexError)
ClassIndex(classes, predicted_class) ==
    LET hits == {i \in 1..Len(classes) : classes[i] = predicted_class}
    IN  IF hits = {} THEN 0 ELSE CHOOSE i \in hits : \A j \in hits : i <= j

\* Line 95: prediction_proba[0][class_index]
LargestProbability(classes, predicted_class, proba) ==
    F(proba[CHOOSE i \in 1..Len(proba) : \A j \in 1..Len(proba) : proba[j] <= proba[i]])
Confidence(classes, predicted_class, proba) == F(proba[ClassIndex(classes, predicted_class)])

\* Line 100
AbsSigned(shap_values) == shap_values
NpAbs(shap_values) == [i \in 1..Len(shap_values) |-> AbsInt(shap_values[i])]

\* np.argsort: every ascending order of the indices; which one among equal values
\* depends on the sort
RECURSIVE ArgSorts(_, _)
ArgSorts(a, todo) ==
    IF todo = {} THEN {<<>>}
    ELSE LET lowest == CHOOSE i \in todo : \A j \in todo : a[i] <= a[j]
             least == {i \in todo : a[i] = a[lowest]}
         IN  UNION {{<<i>> \o rest : rest \in ArgSorts(a, todo \ {i})} : i \in least}

\* Line 101: [-3:][::-1] of an argsort
LastKReversed(order) ==
    Reverse(SubSeq(order, IF Len(order) < TOP_K THEN 1 ELSE Len(order) - TOP_K + 1, Len(order)))

TopIndices(abs_shap_values) ==
    {LastKReversed(order) : order \in ArgSorts(abs_shap_values, 1..Len(abs_shap_values))}

\* Lines 103-110
Explanations(top_indices, expected, row, ranges) ==
    [k \in 1..Len(top_indices) |->
        LET feature_name == expected[top_indices[k]]
            value == row[top_indices[k]]
            normal_range == RangeGet(ranges, feature_name)
        IN  generate_text_explanation(feature_name, value, normal_range)]

\* Lines 113-117: the dict handed to response.update
ResponseUpdate(l) ==
    [confidence |-> Format2f(l.confidence, ProbaUnit),
     prediction_code |-> l.predicted_class,
     explanations |-> l.explanations]

NotCalled == [called |-> FALSE, X |-> <<>>]
Called(row) == [called |-> TRUE, X |-> row]

\* The locals of predict()
Locals0 ==
    [pc |-> "idle", outcome |-> "none", body |-> EmptyBody, row |-> <<>>,
     classifier_input |-> NotCalled, predicted_class |-> 0, prediction_proba |-> <<>>,
     class_index |-> 0, confidence |-> NaN, shap_values_for_class |-> <<>>,
     top_indices |-> <<>>, explanations |-> <<>>, own_dict |-> EmptyDict]

\* Every column name the feature extractor produces: what clients send
AllColumns == Concat([k \in 1..Len(sensors_to_process) |->
                        [j \in 1..Len(Stats) |-> Column(sensors_to_process[k], Stats[j])]])

\* The requests tried: bodies without JSON, without the features key, and with a
\* features mapping giving every feature the value v, one name possibly left out
RequestBodies ==
    {EmptyBody, NullBody, ObjectBody({}, EmptyDict), ObjectBody({"sensor"}, EmptyDict)}
    \cup {ObjectBody({"features"}, [f \in Range(AllColumns) \ omit |-> F(Scale * v)]) :
            v \in {12}, omit \in {{}, {Column("PS2", "mean")}}}

\* What the classifier may answer: any of its classes, with any of these
\* probability vectors (one class holds all but 1/ProbaUnit per other class)
Probas(n) == {[i \in 1..n |-> IF i = j THEN ProbaUnit - (n - 1) ELSE 1] : j \in 1..n}
Classifications(m) ==
    {[nan_ok |-> nan_ok, predicted_class |-> c, proba |-> p] :
        nan_ok \in BOOLEAN, c \in Range(m.classes_), p \in Probas(Len(m.classes_))}

\* What the attributor may answer for n features: magnitudes growing with the index,
\* with the first feature the strongest (and negative), or the last two tied
ShapValues(n) ==
    {[i \in 1..n |-> IF i = 1 THEN -(n + 1) ELSE i],
     [i \in 1..n |-> IF i = n - 1 THEN n ELSE i]}

\* Lines 97-110 for one feature row: every (scores, top_indices, explanations) the
\* attributor and the sort may give
Attributions(row) ==
    UNION {{[shap_values_for_class |-> shap,
             top_indices |-> top,
             explanations |-> Explanations(top, EXPECTED_FEATURES, row, normal_ranges)] :
              top \in TopIndices(NpAbs(shap))} :
           shap \in ShapValues(Len(row))}

\* Lines 82-110 for one request: every way predict() can get to line 112 or leave
\* before it, as the locals it has then
PredictOutcomes(bodies) ==
    LET classified(l) ==
            LET attributions == Attributions(l.row)
            IN  UNION {IF PredictRaises(model, l.row, clf)
                       THEN {[l EXCEPT !.outcome = "exception"]}
                       ELSE LET class_index == ClassIndex(model.classes_,
                                                          clf.predicted_class)
                            IN  IF class_index = 0
                                THEN {[l EXCEPT !.outcome = "exception"]}
                                ELSE {[l EXCEPT !.outcome = "ok",
                                          !.predicted_class = clf.predicted_class,
                                          !.prediction_proba = clf.proba,
                                          !.class_index = class_index,
                                          !.confidence = Confidence(model.classes_,
                                                             clf.predicted_class, clf.proba),
                                          !.shap_values_for_class = a.shap_values_for_class,
                                          !.top_indices = a.top_indices,
                                          !.explanations = a.explanations] :
                                        a \in attributions} :
                         clf \in Classifications(model)}
        received(body, old_flask) ==
            LET l == [Locals0 EXCEPT !.body = body]
                json == GetJson(body, old_flask)
                row == DataFrameRow(body.features, EXPECTED_FEATURES)
            IN  IF ~model.loaded \/ ~explainer.loaded
                THEN {[l EXCEPT !.outcome = "not loaded"]}
                ELSE IF json.raised
                THEN {[l EXCEPT !.outcome = "exception"]}
                ELSE IF FeaturesKeyMissing(body, json)
                THEN {[l EXCEPT !.outcome = "invalid input"]}
                ELSE classified([l EXCEPT !.row = row, !.classifier_input = Called(row)])
    IN  UNION {UNION {received(body, old_flask) :
                        old_flask \in IF body.kind = "empty" THEN BOOLEAN ELSE {FALSE}} :
               body \in bodies}

\* Lines 83, 87, 121
ErrorOf(outcome) ==
    CASE outcome = "not loaded"    -> ErrorResponse(500, "Model or Explainer not loaded")
      [] outcome = "invalid input" -> ErrorResponse(400, "Invalid input: features key missing")
      [] outcome = "exception"     -> ErrorResponse(500, "str(e)")

\* Line 112: PREDICTION_MAP.get(predicted_class, {}) hands out the descriptor kept in
\* the map itself, not a copy of it; a code without descriptor gets a new dict
SharedDescriptor(l) == l.predicted_class \in DOMAIN PREDICTION_MAP

\* One whole request, handled alone
Predict(t) ==
    /\ pc = "serving"
    /\ \E l \in PredictOutcomes(RequestBodies) :
         IF l.outcome # "ok"
         THEN /\ threads' = [threads EXCEPT ![t] = l]
              /\ response' = [response EXCEPT ![t] = ErrorOf(l.outcome)]
              /\ UNCHANGED PREDICTION_MAP
         ELSE LET got == IF SharedDescriptor(l)
                         THEN PREDICTION_MAP[l.predicted_class] ELSE EmptyDict
                  updated == DictUpdate(got, ResponseUpdate(l))
              IN  /\ threads' = [threads EXCEPT ![t] = l]
                  /\ PREDICTION_MAP' = IF SharedDescriptor(l)
                                       THEN [PREDICTION_MAP EXCEPT
                                                ![l.predicted_class] = updated]
                                       ELSE PREDICTION_MAP
                  /\ response' = [response EXCEPT ![t] = [status |-> 200, body |-> updated]]
    /\ UNCHANGED <<data_files, profile_file, model_file, pc, train, printed, model,
                   explainer, features_df, normal_ranges, EXPECTED_FEATURES>>

-----------------------------------------------------------------------------
(* The deployment: optional training, service start, requests one at a time *)

Threads == {1, 2}

Init ==
    /\ data_files \in DataSets
    /\ profile_file \in Profiles(data_files)
    /\ model_file \in {NoModelFile, CorruptModelFile,
                       ModelFile(LoadedModel(<<90, NOMINAL>>, Len(AllColumns)))}
    /\ pc = "offline"
    /\ train = NotRun
    /\ printed = {}
    /\ model = NoneModel
    /\ explainer = NoneModel
    /\ features_df = NoTable
    /\ normal_ranges = EmptyDict
    /\ EXPECTED_FEATURES = <<>>
    /\ PREDICTION_MAP = PREDICTION_MAP_0
    /\ threads = [t \in Threads |-> Locals0]
    /\ response = [t \in Threads |-> NoResponse]

Next ==
    \/ RunTrainModel
    \/ LoadModel
    \/ InitNormalRanges
    \/ Predict(1)

Spec == Init /\ [][Next]_vars

-----------------------------------------------------------------------------
(* Two requests handled at once, one per thread (the development server is      *)
(* threaded): predict() up to line 112, then lines 113-117, then line 118       *)

\* The service once initialised from the given files
Served(files, profile, m) ==
    LET r == CalcNormalRanges(profile, files)
    IN  /\ data_files = files
        /\ profile_file = profile
        /\ model_file = ModelFile(m)
        /\ pc = "serving"
        /\ train = NotRun
        /\ printed = {"Model and SHAP Explainer loaded successfully.",
                      IF r.ok THEN "Normal operating ranges calculated."
                              ELSE "Could not calculate normal ranges"}
        /\ model = m
        /\ explainer = m
        /\ features_df = r.features_df
        /\ normal_ranges = r.normal_ranges
        /\ EXPECTED_FEATURES = r.keys
        /\ PREDICTION_MAP = PREDICTION_MAP_0
        /\ response = [t \in Threads |-> NoResponse]

FullDataSet == [s \in Range(sensors_to_process) |-> Present(SensorTable(s, MaxCycles))]

ConcurrentBodies ==
    {NullBody} \cup {ObjectBody({"features"}, [f \in Range(AllColumns) |-> F(Scale * v)]) :
                       v \in {12}}

InitConc ==
    /\ \E k \in {1, MaxCycles} :
         Served(FullDataSet, Present([c \in 1..MaxCycles |-> IF c <= k THEN NOMINAL ELSE 90]),
                LoadedModel(<<90, NOMINAL>>, Len(AllColumns)))
    /\ threads = [t \in Threads |-> Locals0]

\* Lines 82-112
PredictBegin(t) ==
    /\ pc = "serving"
    /\ threads[t].pc = "idle"
    /\ \E l \in PredictOutcomes(ConcurrentBodies) :
         IF l.outcome # "ok"
         THEN /\ threads' = [threads EXCEPT ![t] = [l EXCEPT !.pc = "done"]]
              /\ response' = [response EXCEPT ![t] = ErrorOf(l.outcome)]
         ELSE /\ threads' = [threads EXCEPT ![t] = [l EXCEPT !.pc = "update"]]
              /\ response' = [response EXCEPT ![t] = NoResponse]
    /\ UNCHANGED <<data_files, profile_file, model_file, pc, train, printed, model,
                   explainer, features_df, normal_ranges, EXPECTED_FEATURES, PREDICTION_MAP>>

\* Lines 113-117: response.update(...) writes into the dict line 112 handed out
PredictUpdate(t) ==
    /\ threads[t].pc = "update"
    /\ LET l == threads[t]
       IN  IF SharedDescriptor(l)
           THEN /\ PREDICTION_MAP' = [PREDICTION_MAP EXCEPT ![l.predicted_class] =
                                         DictUpdate(@, ResponseUpdate(l))]
                /\ threads' = [threads EXCEPT ![t].pc = "return"]
           ELSE /\ threads' = [threads EXCEPT ![t].pc = "return",
                                              ![t].own_dict = ResponseUpdate(l)]
                /\ UNCHANGED PREDICTION_MAP
    /\ UNCHANGED <<data_files, profile_file, model_file, pc, train, printed, model,
                   explainer, features_df, normal_ranges, EXPECTED_FEATURES, response>>

\* Line 118: jsonify(response) serialises what the dict holds now
PredictReturn(t) ==
    /\ threads[t].pc = "return"
    /\ LET l == threads[t]
       IN  response' = [response EXCEPT ![t] =
                           [status |-> 200,
                            body |-> IF SharedDescriptor(l)
                                     THEN PREDICTION_MAP[l.predicted_class]
                                     ELSE l.own_dict]]
    /\ threads' = [threads EXCEPT ![t].pc = "done"]
    /\ UNCHANGED <<data_files, profile_file, model_file, pc, train, printed, model,
                   explainer, features_df, normal_ranges, EXPECTED_FEATURES, PREDICTION_MAP>>

NextConc == \E t \in Threads : PredictBegin(t) \/ PredictUpdate(t) \/ PredictReturn(t)

SpecConc == InitConc /\ [][NextConc]_vars

-----------------------------------------------------------------------------
(* Lines 97-110 on their own: ranking and explanation over every small input *)

\* Ranges a feature may have: none, 2.00 - 4.00, 3.00 - 3.00, and what the
\* quantiles of no rows give
RangeOptions == <<NoRange, <<F(2 * Scale), F(4 * Scale)>>, <<NaN, NaN>>,
                  <<F(3 * Scale), F(3 * Scale)>>>>

\* Observed values around the bounds: 1.95, 2.00, 2.05, 3.00, 3.95, 4.00, 4.05
ExplainValues == {2 * Scale - 1, 2 * Scale, 2 * Scale + 1, 3 * Scale,
                  4 * Scale - 1, 4 * Scale, 4 * Scale + 1}

ScoreValues == {-2, -1, 0, 1}

\* The service state in which n features are expected, the i-th with the
\* (i + shift)-th range option, and a request with every feature at value v and
\* attribution scores shap has reached line 100
AtRanking(n, shift, v, shap) ==
    LET expected == SubSeq(AllColumns, 1, n)
        option(i) == RangeOptions[((i + shift) % Len(RangeOptions)) + 1]
        m == LoadedModel(<<90, NOMINAL>>, n)
    IN  /\ EXPECTED_FEATURES = expected
        /\ normal_ranges = [f \in {expected[i] : i \in {j \in 1..n : option(j) # NoRange}} |->
                               option(CHOOSE i \in 1..n : expected[i] = f)]
        /\ threads = [t \in Threads |->
                        IF t = 1
                        THEN [Locals0 EXCEPT !.pc = "explain",
                                             !.row = [i \in 1..n |-> F(v)],
                                             !.shap_values_for_class = shap]
                        ELSE Locals0]
        /\ model = m
        /\ explainer = m
        /\ data_files = FullDataSet
        /\ profile_file = Missing
        /\ model_file = ModelFile(m)
        /\ pc = "serving"
        /\ train = NotRun
        /\ printed = {}
        /\ features_df = NoTable
        /\ PREDICTION_MAP = PREDICTION_MAP_0
        /\ response = [t \in Threads |-> NoResponse]

\* Every value against every range option, under the attributor's two answers
InitExplain ==
    \E n \in 0..MaxFeatures, shift \in 0..(Len(RangeOptions) - 1), v \in ExplainValues :
      \E shap \in ShapValues(n) : AtRanking(n, shift, v, shap)

\* Every score vector over ScoreValues
InitRank ==
    \E n \in 0..MaxFeatures :
      \E shap \in [1..n -> ScoreValues] : AtRanking(n, 0, 3 * Scale, shap)

RankAndExplain(t) ==
    /\ threads[t].pc = "explain"
    /\ \E top \in TopIndices(NpAbs(threads[t].shap_values_for_class)) :
         threads' = [threads EXCEPT
                        ![t].pc = "done",
                        ![t].outcome = "ok",
                        ![t].top_indices = top,
                        ![t].explanations = Explanations(top, EXPECTED_FEATURES,
                                                         threads[t].row, normal_ranges)]
    /\ UNCHANGED <<data_files, profile_file, model_file, pc, train, printed, model,
                   explainer, features_df, normal_ranges, EXPECTED_FEATURES, PREDICTION_MAP,
                   response>>

NextExplain == RankAndExplain(1)

SpecExplain == InitExplain /\ [][NextExplain]_vars

SpecRank == InitRank /\ [][NextExplain]_vars

-----------------------------------------------------------------------------
(* Properties *)

Handled(t) == threads[t].outcome # "none"
Succeeded(t) == response[t].status = 200
Min(a, b) == IF a < b THEN a ELSE b

GENERIC == "was a significant factor"
LOW == "unusually low"
HIGH == "unusually high"
WITHIN == "within its normal range"

NotLoadedResponse == ErrorResponse(500, "Model or Explainer not loaded")
InvalidInputResponse == ErrorResponse(400, "Invalid input: features key missing")

\* C1: while the service is serving, whatever requests it has handled, the shared
\* state is what initialisation made it: model, explainer, normal_ranges and
\* EXPECTED_FEATURES are what the files give, and every PREDICTION_MAP descriptor
\* holds exactly label, severity and remedy with their initial values.
C1_SharedStateAsInitialised ==
    pc = "serving" =>
      /\ PREDICTION_MAP = PREDICTION_MAP_0
      /\ \A code \in DOMAIN PREDICTION_MAP :
           DOMAIN PREDICTION_MAP[code] = {"label", "severity", "remedy"}
      /\ model = model_file.model
      /\ explainer = model_file.model
      /\ normal_ranges = CalcNormalRanges(profile_file, data_files).normal_ranges
      /\ EXPECTED_FEATURES = CalcNormalRanges(profile_file, data_files).keys

\* C2: the confidence of a successful response is the probability at the index of
\* the classifier's class list holding the predicted code, whether or not that
\* entry is the largest, rendered with two decimals (in hundredths: the nearest
\* hundredth of proba/ProbaUnit), and the response reports that code.
C2_ConfidenceOfPredictedClass ==
    \A t \in Threads :
      Succeeded(t) =>
        LET l == threads[t]
            body == response[t].body
        IN  /\ body.prediction_code = l.predicted_class
            /\ \E i \in 1..Len(model.classes_) :
                 /\ model.classes_[i] = l.predicted_class
                 /\ body.confidence # NaN
                 /\ 2 * AbsInt(100 * l.prediction_proba[i] - ProbaUnit * body.confidence[1])
                      <= ProbaUnit

\* C2 witness: a successful response for a class whose probability is not the largest
C2_Witness ==
    \E t \in Threads :
      /\ Succeeded(t)
      /\ \E j \in 1..Len(threads[t].prediction_proba) :
           threads[t].prediction_proba[j] > threads[t].prediction_proba[threads[t].class_index]
      /\ response[t].body.confidence = F(12)

Swap(s, i, j) == [k \in 1..Len(s) |-> IF k = i THEN s[j] ELSE IF k = j THEN s[i] ELSE s[k]]
Renamed(top, i, j) ==
    [k \in 1..Len(top) |-> IF top[k] = i THEN j ELSE IF top[k] = j THEN i ELSE top[k]]

\* C3: over n features the explanations are min(3, n), one per listed feature, the
\* listed features distinct, in descending order of absolute attribution, every
\* listed feature at least as strong as every unlisted one; and with the scores of
\* two features exchanged, the ranking with the two features exchanged is a ranking
\* the code gives.
C3_TopThreeByMagnitude ==
    \A t \in Threads :
      threads[t].outcome = "ok" =>
        LET l == threads[t]
            n == Len(l.row)
            top == l.top_indices
            score(i) == AbsInt(l.shap_values_for_class[i])
        IN  /\ Len(l.explanations) = Min(3, n)
            /\ Len(top) = Len(l.explanations)
            /\ \A a \in 1..Len(top) :
                 /\ top[a] \in 1..n
                 /\ l.explanations[a].sensor = Title(EXPECTED_FEATURES[top[a]][1])
                 /\ l.explanations[a].metric = <<Title(EXPECTED_FEATURES[top[a]][2])>>
            /\ \A a, b \in 1..Len(top) :
                 /\ a # b => top[a] # top[b]
                 /\ a # b => <<l.explanations[a].sensor, l.explanations[a].metric>>
                             # <<l.explanations[b].sensor, l.explanations[b].metric>>
                 /\ a < b => score(top[a]) >= score(top[b])
            /\ \A i \in Range(top), j \in (1..n) \ Range(top) : score(i) >= score(j)
            /\ \A i, j \in 1..n :
                 i < j => Renamed(top, i, j)
                            \in TopIndices(NpAbs(Swap(l.shap_values_for_class, i, j)))

\* C3 witness: more than three features, the strongest one with a negative score
\* listed first, a weaker one left out
C3_Witness ==
    \E t \in Threads :
      LET l == threads[t]
      IN  /\ l.outcome = "ok"
          /\ Len(l.row) > 3
          /\ Len(l.explanations) = 3
          /\ l.shap_values_for_class[l.top_indices[1]] < 0
          /\ \E j \in 1..Len(l.row) :
               /\ j \notin Range(l.top_indices)
               /\ l.shap_values_for_class[j] > l.shap_values_for_class[l.top_indices[1]]

\* C4: the explanation of a feature is the generic text without numbers when the
\* feature has no range; with a range (lo, hi) it is the low text exactly when
\* value < lo, the high text exactly when value > hi and the within text otherwise,
\* so at value = lo and at value = hi it is the within text; the low and high texts
\* render value, lo and hi, the within text the value.
C4_TemplateByRange ==
    \A t \in Threads :
      threads[t].outcome = "ok" =>
        \A k \in 1..Len(threads[t].explanations) :
          LET l == threads[t]
              text == l.explanations[k]
              name == EXPECTED_FEATURES[l.top_indices[k]]
              value == l.row[l.top_indices[k]]
              cents(x) == F((100 \div Scale) * x[1])
          IN  value # NaN =>
                IF name \notin DOMAIN normal_ranges
                THEN text.template = GENERIC /\ text.numbers = <<>>
                ELSE LET lo == normal_ranges[name][1]
                         hi == normal_ranges[name][2]
                     IN  IF lo = NaN \/ hi = NaN
                         THEN text.template = WITHIN
                         ELSE /\ text.template \in {LOW, HIGH, WITHIN}
                              /\ text.template = LOW <=> value[1] < lo[1]
                              /\ text.template = HIGH <=> value[1] > hi[1]
                              /\ text.template = WITHIN <=>
                                   (lo[1] <= value[1] /\ value[1] <= hi[1])
                              /\ text.template \in {LOW, HIGH} =>
                                   text.numbers = <<cents(value), cents(lo), cents(hi)>>
                              /\ text.template = WITHIN => text.numbers = <<cents(value)>>

\* C4 witness: a value equal to the lower bound of a proper range, explained as
\* within range, beside a feature without range explained by the generic text
C4_Witness ==
    \E t \in Threads :
      LET l == threads[t]
      IN  /\ l.outcome = "ok"
          /\ \E k \in 1..Len(l.explanations) :
               LET name == EXPECTED_FEATURES[l.top_indices[k]]
               IN  /\ name \in DOMAIN normal_ranges
                   /\ normal_ranges[name][1] = l.row[l.top_indices[k]]
                   /\ normal_ranges[name][1] # normal_ranges[name][2]
                   /\ l.explanations[k].template = WITHIN
          /\ \E k \in 1..Len(l.explanations) :
               /\ EXPECTED_FEATURES[l.top_indices[k]] \notin DOMAIN normal_ranges
               /\ l.explanations[k].template = GENERIC

StartupFailed ==
    \/ "Error: Model file 'hydraulic_model.joblib' not found." \in printed
    \/ "Could not calculate normal ranges" \in printed

\* C5: when the model failed to load or the range table failed to compute, every
\* request the service answers is answered with the service-unavailable error,
\* never with anything else.
C5_StartupFailureRejectsAll ==
    (pc = "serving" /\ StartupFailed) =>
      \A t \in Threads : Handled(t) => response[t] = NotLoadedResponse

NoNominalRows ==
    /\ profile_file.exists
    /\ \A c \in 1..Len(profile_file.rows) : profile_file.rows[c] # NOMINAL

\* C6: when no row of the reference data is labelled 100, every explanation of a
\* successful response is the generic text.
C6_NoNominalRowsGenericText ==
    (pc = "serving" /\ NoNominalRows) =>
      \A t \in Threads :
        Succeeded(t) =>
          \A k \in 1..Len(response[t].body.explanations) :
            response[t].body.explanations[k].template = GENERIC

OmitsCanonicalName(body) ==
    /\ body.kind = "object"
    /\ "features" \in body.keys
    /\ \E f \in Range(AllColumns) : f \notin DOMAIN body.features

\* C7: with the service initialised, a request whose features mapping omits a
\* canonical feature name is answered with the client error and its vector never
\* reaches the classifier.
C7_IncompleteFeaturesRejected ==
    (pc = "serving" /\ model.loaded /\ EXPECTED_FEATURES = AllColumns) =>
      \A t \in Threads :
        (Handled(t) /\ OmitsCanonicalName(threads[t].body)) =>
          /\ response[t].status = 400
          /\ ~threads[t].classifier_input.called

LacksFeatures(body) == body.kind \in {"empty", "null"} \/ "features" \notin body.keys

\* C8: with model and explainer loaded, a request with an empty body or without the
\* features key is answered by the validation check, with status 400 and an error
\* message, not by the exception handler.
C8_MissingFeaturesIsValidationError ==
    (pc = "serving" /\ model.loaded /\ explainer.loaded) =>
      \A t \in Threads :
        (Handled(t) /\ LacksFeatures(threads[t].body)) =>
          /\ threads[t].outcome = "invalid input"
          /\ response[t] = InvalidInputResponse

RowCountsDiffer ==
    \E s1, s2 \in Range(sensors_to_process) :
      /\ data_files[s1].exists
      /\ data_files[s2].exists
      /\ Len(data_files[s1].rows) # Len(data_files[s2].rows)

\* C9: when two sensor tables differ in their number of cycles, neither the
\* training script nor the service builds a combined feature table.
C9_RowMismatchDetected ==
    RowCountsDiffer => (train.features_df = NoTable /\ features_df = NoTable)

\* C10: of two requests handled at once, each successful response carries the
\* confidence, prediction_code and explanations computed for its own request.
C10_ResponseIsOwn ==
    \A t \in Threads :
      (threads[t].pc = "done" /\ Succeeded(t)) =>
        /\ response[t].body.confidence = Format2f(threads[t].confidence, ProbaUnit)
        /\ response[t].body.prediction_code = threads[t].predicted_class
        /\ response[t].body.explanations = threads[t].explanations

====
